---------------------------- MODULE Spec2Model ----------------------------
(***************************************************************************)
(* Model of the mofh client library (src/src/mofh/main.py): the two        *)
(* facades Client and AsyncClient, their lazily created transport session, *)
(* and the classification of a raw response text into a returned value or  *)
(* a raised exception, one handler per remote operation.                   *)
(*                                                                         *)
(* A raw response text is a sequence of lexemes.  A lexeme is either one   *)
(* character (" ", "0", "1", "2", "-", "z", "[", "]", "{", "}", ":", ",")  *)
(* or a run of characters that the three decoders of the program (the XML  *)
(* parser, int() and ast.literal_eval) never split: an XML tag, a quoted   *)
(* string literal, the name null.                                          *)
(***************************************************************************)
EXTENDS Integers, Sequences, FiniteSets, TLC

(***************************************************************************)
(* Bounds of the model.                                                    *)
(***************************************************************************)
\* Longest raw response enumerated lexeme by lexeme over the mixed lexemes.
MaxTextLen == 2
\* Longest plain scalar text (digits, sign, blank, letter) enumerated.
MaxScalarLen == 3
\* Largest number of fields below the first child of an XML response.
MaxFields == 6

(***************************************************************************)
(* Lexemes.                                                                *)
(***************************************************************************)
OpenTags == {"<a>", "<b>"}
CloseTags == {"</a>", "</b>"}
EmptyTags == {"<a/>"}
Digits == {"0", "1", "2"}
ScalarLexemes == {"0", "1", "-", " ", "z"}
LiteralLexemes == {"[", "]", "{", "}", ":", ",", "'a.com'", "null"}
Lexemes ==
    OpenTags \cup CloseTags \cup EmptyTags \cup Digits \cup ScalarLexemes \cup LiteralLexemes
\* The lexemes mixed freely in the short texts: some of each decoder's.
MixedLexemes == {"<a>", "</a>", "1", " ", "[", "]", "{", "}", ",", "'a.com'", "null"}

TagName(t) ==
    CASE t \in {"<a>", "</a>", "<a/>"} -> "a"
      [] t \in {"<b>", "</b>"} -> "b"
      [] OTHER -> ""

DigitValue(d) ==
    CASE d = "0" -> 0
      [] d = "1" -> 1
      [] d = "2" -> 2
      [] OTHER -> 0

BoundedSeq(S, n) == UNION {[1..k -> S] : k \in 0..n}

(***************************************************************************)
(* Python values, as uniform records so that any two can be compared:      *)
(* ty is the Python type, n an int's value, s a str's lexemes, items the   *)
(* members of a list, tuple or set, or the (key, value) pairs of a dict.   *)
(***************************************************************************)
PyNone == [ty |-> "NoneType", n |-> 0, s |-> <<>>, items |-> <<>>]
PyIntVal(k) == [ty |-> "int", n |-> k, s |-> <<>>, items |-> <<>>]
PyStr(text) == [ty |-> "str", n |-> 0, s |-> text, items |-> <<>>]
PyColl(type, members) == [ty |-> type, n |-> 0, s |-> <<>>, items |-> members]

(***************************************************************************)
(* int(text) on a str: surrounding blanks are stripped, one sign is        *)
(* allowed, and the rest must be a non-empty run of decimal digits.        *)
(* ok = FALSE stands for ValueError.                                       *)
(***************************************************************************)
RECURSIVE StripLeft(_)
StripLeft(text) ==
    IF text # <<>> /\ Head(text) = " " THEN StripLeft(Tail(text)) ELSE text

RECURSIVE StripRight(_)
StripRight(text) ==
    IF text # <<>> /\ text[Len(text)] = " "
    THEN StripRight(SubSeq(text, 1, Len(text) - 1))
    ELSE text

RECURSIVE DecimalValue(_)
DecimalValue(digits) ==
    IF digits = <<>> THEN 0
    ELSE 10 * DecimalValue(SubSeq(digits, 1, Len(digits) - 1))
         + DigitValue(digits[Len(digits)])

PyInt(text) ==
    LET body == StripRight(StripLeft(text))
        neg == body # <<>> /\ Head(body) = "-"
        digits == IF neg THEN Tail(body) ELSE body
    IN  IF digits # <<>> /\ \A i \in 1..Len(digits) : digits[i] \in Digits
        THEN [ok |-> TRUE, n |-> IF neg THEN -DecimalValue(digits) ELSE DecimalValue(digits)]
        ELSE [ok |-> FALSE, n |-> 0]

(***************************************************************************)
(* ElementTree.fromstring(response).  An element keeps its tag, its text   *)
(* (the character data before its first child; None when there is none)    *)
(* and its children.  ok = FALSE stands for ElementTree.ParseError.        *)
(***************************************************************************)
NoText == [some |-> FALSE, s |-> <<>>]
SomeText(text) == [some |-> TRUE, s |-> text]
Element(tag, text, children) == [tag |-> tag, text |-> text, children |-> children]
NoElement == Element("", NoText, <<>>)
ParseError == [ok |-> FALSE, root |-> NoElement]

\* The innermost open element gains a finished child.
AddChild(stack, child) ==
    LET top == stack[Len(stack)]
    IN  [stack EXCEPT ![Len(stack)] =
            Element(top.tag, top.text, Append(top.children, child))]

\* Character data: text of the open element until its first child, tail after.
AddText(stack, ch) ==
    LET top == stack[Len(stack)]
    IN  IF top.children # <<>> THEN stack
        ELSE [stack EXCEPT ![Len(stack)] =
                Element(top.tag, SomeText(top.text.s \o <<ch>>), <<>>)]

RECURSIVE XmlRun(_, _, _, _)
XmlRun(toks, i, stack, root) ==
    IF i > Len(toks)
    THEN IF stack = <<>> /\ root # <<>> THEN [ok |-> TRUE, root |-> root[1]]
         ELSE ParseError
    ELSE LET t == toks[i] IN
        CASE t \in OpenTags ->
                IF stack = <<>> /\ root # <<>> THEN ParseError
                ELSE XmlRun(toks, i + 1, Append(stack, Element(TagName(t), NoText, <<>>)), root)
          [] t \in EmptyTags ->
                IF stack = <<>>
                THEN IF root # <<>> THEN ParseError
                     ELSE XmlRun(toks, i + 1, stack, <<Element(TagName(t), NoText, <<>>)>>)
                ELSE XmlRun(toks, i + 1, AddChild(stack, Element(TagName(t), NoText, <<>>)), root)
          [] t \in CloseTags ->
                IF stack = <<>> \/ stack[Len(stack)].tag # TagName(t) THEN ParseError
                ELSE LET done == stack[Len(stack)]
                         rest == SubSeq(stack, 1, Len(stack) - 1)
                     IN  IF rest = <<>> THEN XmlRun(toks, i + 1, rest, <<done>>)
                         ELSE XmlRun(toks, i + 1, AddChild(rest, done), root)
          [] OTHER ->
                IF stack = <<>>
                THEN IF t = " " THEN XmlRun(toks, i + 1, stack, root) ELSE ParseError
                ELSE XmlRun(toks, i + 1, AddText(stack, t), root)

_parse_xml(response) == XmlRun(response, 1, <<>>, <<>>)

(***************************************************************************)
(* ast.literal_eval(response), first step: Python's tokenizer.  Blanks     *)
(* separate tokens; a run of digits is one number (a leading zero is       *)
(* allowed only in a run of zeros, and no name character may follow); a    *)
(* run of name characters is one name; adjacent tags are comparison        *)
(* operators around a name, and a tag holding "/" never parses.            *)
(***************************************************************************)
Token(kind, value, sym) == [k |-> kind, n |-> value, s |-> sym]
EofToken == Token("EOF", 0, "")
NameLexemes == {"z", "null"}

RECURSIVE DigitRun(_, _)
DigitRun(text, i) ==
    IF i <= Len(text) /\ text[i] \in Digits THEN DigitRun(text, i + 1) ELSE i

RECURSIVE NameRun(_, _)
NameRun(text, i) ==
    IF i <= Len(text) /\ text[i] \in NameLexemes \cup Digits
    THEN NameRun(text, i + 1) ELSE i

NumberToken(digits, follower) ==
    IF follower \in NameLexemes
       \/ (Len(digits) > 1 /\ digits[1] = "0" /\ \E i \in 1..Len(digits) : digits[i] # "0")
    THEN Token("ERR", 0, "")
    ELSE Token("NUM", DecimalValue(digits), "")

RECURSIVE Tokenize(_, _)
Tokenize(text, i) ==
    IF i > Len(text) THEN <<>>
    ELSE LET c == text[i] IN
        CASE c = " " -> Tokenize(text, i + 1)
          [] c \in Digits ->
                LET j == DigitRun(text, i)
                    follower == IF j <= Len(text) THEN text[j] ELSE ""
                IN  <<NumberToken(SubSeq(text, i, j - 1), follower)>> \o Tokenize(text, j)
          [] c \in NameLexemes ->
                <<Token("NAME", 0, c)>> \o Tokenize(text, NameRun(text, i))
          [] c = "'a.com'" -> <<Token("STR", 0, c)>> \o Tokenize(text, i + 1)
          [] c \in OpenTags ->
                <<Token("OP", 0, "<"), Token("NAME", 0, TagName(c)), Token("OP", 0, ">")>>
                    \o Tokenize(text, i + 1)
          [] c \in CloseTags \cup EmptyTags -> <<Token("ERR", 0, "")>> \o Tokenize(text, i + 1)
          [] OTHER -> <<Token("OP", 0, c)>> \o Tokenize(text, i + 1)

(***************************************************************************)
(* Second step: Python's expression grammar, as far as these tokens reach: *)
(*   testlist := compare ("," compare)* [","]                              *)
(*   compare  := arith (("<" | ">") arith)*                                *)
(*   arith    := unary ("-" unary)*                                        *)
(*   unary    := "-" unary | atom                                          *)
(*   atom     := NUM | STR+ | NAME | "[" [testlist] "]"                    *)
(*             | "{" [compare ":" compare ("," compare ":" compare)* [","] *)
(*                    | testlist] "}"                                      *)
(* ok = FALSE stands for SyntaxError.                                      *)
(***************************************************************************)
Node(kind, value, text, members) == [k |-> kind, n |-> value, s |-> text, items |-> members]
NoNode == Node("", 0, <<>>, <<>>)
\* What a rule yields: the node it parsed or the members it collected, the
\* place of the next token, and whether a comma was met.
Parsed(node, next) ==
    [ok |-> TRUE, node |-> node, items |-> <<>>, next |-> next, comma |-> FALSE]
ParsedItems(members, next, comma) ==
    [ok |-> TRUE, node |-> NoNode, items |-> members, next |-> next, comma |-> comma]
SyntaxError == [ok |-> FALSE, node |-> NoNode, items |-> <<>>, next |-> 0, comma |-> FALSE]

TokenAt(toks, i) == IF i <= Len(toks) THEN toks[i] ELSE EofToken
IsOp(t, sym) == t.k = "OP" /\ t.s = sym
StartsExpression(t) ==
    t.k \in {"NUM", "STR", "NAME"} \/ IsOp(t, "[") \/ IsOp(t, "{") \/ IsOp(t, "-")

\* The characters a quoted string literal denotes.
StringContent(lexeme) == IF lexeme = "'a.com'" THEN "a.com" ELSE lexeme

RECURSIVE StrRun(_, _)
StrRun(toks, i) == IF TokenAt(toks, i).k = "STR" THEN StrRun(toks, i + 1) ELSE i

\* The recursive descent, one case per rule of the grammar; acc holds the
\* members collected so far (testlist, pairs) or the left operand (the rests).
RECURSIVE Parse(_, _, _, _)
Parse(rule, toks, i, acc) ==
    CASE rule = "testlist" ->
            LET r == Parse("compare", toks, i, <<>>) IN
            IF ~r.ok THEN SyntaxError
            ELSE IF IsOp(TokenAt(toks, r.next), ",")
                 THEN IF StartsExpression(TokenAt(toks, r.next + 1))
                      THEN LET more == Parse("testlist", toks, r.next + 1, Append(acc, r.node))
                           IN  IF more.ok THEN ParsedItems(more.items, more.next, TRUE)
                               ELSE SyntaxError
                      ELSE ParsedItems(Append(acc, r.node), r.next + 1, TRUE)
                 ELSE ParsedItems(Append(acc, r.node), r.next, FALSE)
      [] rule = "pairs" ->
            LET key == Parse("compare", toks, i, <<>>) IN
            IF ~key.ok \/ ~IsOp(TokenAt(toks, key.next), ":") THEN SyntaxError
            ELSE LET val == Parse("compare", toks, key.next + 1, <<>>) IN
                 IF ~val.ok THEN SyntaxError
                 ELSE LET pairs == Append(acc, Node("Pair", 0, <<>>, <<key.node, val.node>>)) IN
                      IF IsOp(TokenAt(toks, val.next), ",")
                      THEN IF StartsExpression(TokenAt(toks, val.next + 1))
                           THEN Parse("pairs", toks, val.next + 1, pairs)
                           ELSE ParsedItems(pairs, val.next + 1, TRUE)
                      ELSE ParsedItems(pairs, val.next, FALSE)
      [] rule = "atom" ->
            LET t == TokenAt(toks, i) IN
            CASE t.k = "NUM" -> Parsed(Node("Num", t.n, <<>>, <<>>), i + 1)
              [] t.k = "NAME" -> Parsed(Node("Name", 0, <<t.s>>, <<>>), i + 1)
              [] t.k = "STR" ->
                    LET j == StrRun(toks, i)
                        text == [x \in 1..(j - i) |-> StringContent(toks[i + x - 1].s)]
                    IN  Parsed(Node("Str", 0, text, <<>>), j)
              [] IsOp(t, "[") ->
                    IF IsOp(TokenAt(toks, i + 1), "]")
                    THEN Parsed(Node("List", 0, <<>>, <<>>), i + 2)
                    ELSE LET r == Parse("testlist", toks, i + 1, <<>>) IN
                         IF r.ok /\ IsOp(TokenAt(toks, r.next), "]")
                         THEN Parsed(Node("List", 0, <<>>, r.items), r.next + 1)
                         ELSE SyntaxError
              [] IsOp(t, "{") ->
                    IF IsOp(TokenAt(toks, i + 1), "}")
                    THEN Parsed(Node("Dict", 0, <<>>, <<>>), i + 2)
                    ELSE LET first == Parse("compare", toks, i + 1, <<>>) IN
                         IF ~first.ok THEN SyntaxError
                         ELSE LET kind == IF IsOp(TokenAt(toks, first.next), ":")
                                          THEN "Dict" ELSE "Set"
                                  r == Parse(IF kind = "Dict" THEN "pairs" ELSE "testlist",
                                             toks, i + 1, <<>>)
                              IN  IF r.ok /\ IsOp(TokenAt(toks, r.next), "}")
                                  THEN Parsed(Node(kind, 0, <<>>, r.items), r.next + 1)
                                  ELSE SyntaxError
              [] OTHER -> SyntaxError
      [] rule = "unary" ->
            IF IsOp(TokenAt(toks, i), "-")
            THEN LET r == Parse("unary", toks, i + 1, <<>>)
                 IN  IF r.ok THEN Parsed(Node("UnaryOp", 0, <<>>, <<r.node>>), r.next)
                     ELSE SyntaxError
            ELSE Parse("atom", toks, i, <<>>)
      [] rule = "arith" ->
            LET r == Parse("unary", toks, i, <<>>)
            IN  IF r.ok THEN Parse("arith_rest", toks, r.next, <<r.node>>) ELSE SyntaxError
      [] rule = "arith_rest" ->
            IF IsOp(TokenAt(toks, i), "-")
            THEN LET r == Parse("unary", toks, i + 1, <<>>)
                 IN  IF r.ok
                     THEN Parse("arith_rest", toks, r.next,
                                <<Node("BinOp", 0, <<>>, <<acc[1], r.node>>)>>)
                     ELSE SyntaxError
            ELSE Parsed(acc[1], i)
      [] rule = "compare" ->
            LET r == Parse("arith", toks, i, <<>>)
            IN  IF r.ok THEN Parse("compare_rest", toks, r.next, <<r.node>>) ELSE SyntaxError
      [] OTHER ->
            \* compare_rest
            IF IsOp(TokenAt(toks, i), "<") \/ IsOp(TokenAt(toks, i), ">")
            THEN LET r == Parse("arith", toks, i + 1, <<>>)
                 IN  IF r.ok
                     THEN Parse("compare_rest", toks, r.next,
                                <<Node("Compare", 0, <<>>, <<acc[1], r.node>>)>>)
                     ELSE SyntaxError
            ELSE Parsed(acc[1], i)

\* ast.parse(text, mode="eval"): the whole text is one expression list.
PyParse(text) ==
    LET toks == Tokenize(text, 1) IN
    IF toks = <<>> \/ \E i \in 1..Len(toks) : toks[i].k = "ERR" THEN SyntaxError
    ELSE LET r == Parse("testlist", toks, 1, <<>>) IN
         IF ~r.ok \/ r.next # Len(toks) + 1 THEN SyntaxError
         ELSE IF r.comma \/ Len(r.items) > 1
              THEN Parsed(Node("Tuple", 0, <<>>, r.items), r.next)
              ELSE Parsed(r.items[1], r.next)

(***************************************************************************)
(* Third step: literal_eval's _convert, in its order of evaluation.  A     *)
(* list or tuple converts its members in order; a set converts and then    *)
(* hashes each member in turn; a dict converts a key, converts its value,  *)
(* then hashes the key.  err is "none", "ValueError" (a node that is no    *)
(* literal) or "TypeError" (an unhashable member or key).                  *)
(***************************************************************************)
Converted(val) == [err |-> "none", val |-> val]
ConvertError(kind) == [err |-> kind, val |-> PyNone]

RECURSIVE Hashable(_)
Hashable(val) ==
    CASE val.ty \in {"list", "dict", "set"} -> FALSE
      [] val.ty = "tuple" -> \A i \in 1..Len(val.items) : Hashable(val.items[i])
      [] OTHER -> TRUE

\* set.add: a member equal to one already held is dropped.
SetAdd(members, val) ==
    IF \E i \in 1..Len(members) : members[i] = val THEN members ELSE Append(members, val)

\* dict[key] = value: a key already held keeps its place and takes the new value.
DictPut(pairs, key, val) ==
    IF \E i \in 1..Len(pairs) : pairs[i].items[1] = key
    THEN [i \in 1..Len(pairs) |->
            IF pairs[i].items[1] = key THEN PyColl("pair", <<key, val>>) ELSE pairs[i]]
    ELSE Append(pairs, PyColl("pair", <<key, val>>))

RECURSIVE Convert(_)
RECURSIVE ConvertSeq(_, _, _)
RECURSIVE ConvertSet(_, _, _)
RECURSIVE ConvertDict(_, _, _)

ConvertSeq(nodes, i, acc) ==
    IF i > Len(nodes) THEN [err |-> "none", items |-> acc]
    ELSE LET r == Convert(nodes[i]) IN
         IF r.err # "none" THEN [err |-> r.err, items |-> <<>>]
         ELSE ConvertSeq(nodes, i + 1, Append(acc, r.val))

ConvertSet(nodes, i, acc) ==
    IF i > Len(nodes) THEN [err |-> "none", items |-> acc]
    ELSE LET r == Convert(nodes[i]) IN
         IF r.err # "none" THEN [err |-> r.err, items |-> <<>>]
         ELSE IF ~Hashable(r.val) THEN [err |-> "TypeError", items |-> <<>>]
         ELSE ConvertSet(nodes, i + 1, SetAdd(acc, r.val))

ConvertDict(pairs, i, acc) ==
    IF i > Len(pairs) THEN [err |-> "none", items |-> acc]
    ELSE LET key == Convert(pairs[i].items[1]) IN
         IF key.err # "none" THEN [err |-> key.err, items |-> <<>>]
         ELSE LET val == Convert(pairs[i].items[2]) IN
              IF val.err # "none" THEN [err |-> val.err, items |-> <<>>]
              ELSE IF ~Hashable(key.val) THEN [err |-> "TypeError", items |-> <<>>]
              ELSE ConvertDict(pairs, i + 1, DictPut(acc, key.val, val.val))

Convert(node) ==
    CASE node.k = "Num" -> Converted(PyIntVal(node.n))
      [] node.k = "Str" -> Converted(PyStr(node.s))
      [] node.k = "UnaryOp" ->
            IF node.items[1].k = "Num" THEN Converted(PyIntVal(-node.items[1].n))
            ELSE ConvertError("ValueError")
      [] node.k \in {"List", "Tuple"} ->
            LET r == ConvertSeq(node.items, 1, <<>>) IN
            IF r.err # "none" THEN ConvertError(r.err)
            ELSE Converted(PyColl(IF node.k = "List" THEN "list" ELSE "tuple", r.items))
      [] node.k = "Set" ->
            LET r == ConvertSet(node.items, 1, <<>>) IN
            IF r.err # "none" THEN ConvertError(r.err) ELSE Converted(PyColl("set", r.items))
      [] node.k = "Dict" ->
            LET r == ConvertDict(node.items, 1, <<>>) IN
            IF r.err # "none" THEN ConvertError(r.err) ELSE Converted(PyColl("dict", r.items))
      [] OTHER -> ConvertError("ValueError")

\* ast.literal_eval(response): leading blanks are stripped by the tokenizer.
literal_eval(response) ==
    LET tree == PyParse(response) IN
    IF ~tree.ok THEN ConvertError("SyntaxError") ELSE Convert(tree.node)

(***************************************************************************)
(* The outcome of one call: a returned value, or a raised exception with   *)
(* its class, its message (the first argument of the exception) and, for   *)
(* APIError, its status (src/src/mofh/errors.py).                          *)
(***************************************************************************)
Returned(val) ==
    [kind |-> "return", exc |-> "none", value |-> val, message |-> PyNone, status |-> 0]
Raised(exc, message) ==
    [kind |-> "raise", exc |-> exc, value |-> PyNone, message |-> message, status |-> 0]
APIError(message, status) ==
    [kind |-> "raise", exc |-> "APIError", value |-> PyNone, message |-> message,
     status |-> status]

\* What the exceptions that are not APIError say; the parser's complaint is
\* the message of ElementTree.ParseError.
ParserComplaint == PyStr(<<"not well-formed">>)
IndexError == Raised("IndexError", PyStr(<<"child index out of range">>))
TypeError(what) == Raised("TypeError", PyStr(<<what>>))
InvalidUsername == PyStr(<<"Invalid username provided.">>)

\* element[i] and element.text of ElementTree.
HasChild(element, i) == i + 1 <= Len(element.children)
Child(element, i) == element.children[i + 1]
TextOf(element) == IF element.text.some THEN PyStr(element.text.s) ELSE PyNone

(***************************************************************************)
(* The handlers, from the response text on.  Each facade has its own copy  *)
(* of every handler in the source, and so here.                            *)
(***************************************************************************)
\* create: status = root[0][statusAt].text; "1" returns root[0][0][1].text,
\* anything else raises APIError(root[0][errorAt].text, 0).  There is no
\* except clause, so whatever the decoding raises escapes.
CreateClassify(response, statusAt, errorAt) ==
    LET doc == _parse_xml(response)
        root == doc.root
    IN  IF ~doc.ok THEN Raised("ParseError", ParserComplaint)
        ELSE IF ~HasChild(root, 0) \/ ~HasChild(Child(root, 0), statusAt) THEN IndexError
        ELSE LET record == Child(root, 0)
                 status == TextOf(Child(record, statusAt))
             IN  IF status = PyStr(<<"1">>)
                 THEN IF HasChild(Child(record, 0), 1)
                      THEN Returned(TextOf(Child(Child(record, 0), 1)))
                      ELSE IndexError
                 ELSE IF HasChild(record, errorAt)
                      THEN APIError(TextOf(Child(record, errorAt)), 0)
                      ELSE IndexError

\* suspend, unsuspend, change_password: status = root[0][index].text, then
\* int(status) under `except ValueError`, all under `except ParseError`.
StatusClassify(response, index, parseFailure) ==
    LET doc == _parse_xml(response)
        root == doc.root
    IN  IF ~doc.ok THEN APIError(parseFailure, 0)
        ELSE IF ~HasChild(root, 0) \/ ~HasChild(Child(root, 0), index) THEN IndexError
        ELSE LET status == TextOf(Child(Child(root, 0), index)) IN
             IF status.ty = "NoneType" THEN TypeError("int() argument must be a string")
             ELSE LET n == PyInt(status.s) IN
                  IF n.ok THEN Returned(PyIntVal(n.n))
                  ELSE APIError(PyStr(response), 0)

\* A slip: the integer is tested for truth, so 0 is taken for a failure.
ScalarClassifyTruthy(response) ==
    LET n == PyInt(response) IN
    IF n.ok /\ n.n # 0 THEN Returned(PyIntVal(n.n)) ELSE APIError(PyStr(response), 0)

\* domain_available: int(response) under `except ValueError`.
ScalarClassify(response) ==
    LET n == PyInt(response) IN
    IF n.ok THEN Returned(PyIntVal(n.n)) ELSE APIError(PyStr(response), 0)

\* user_domains, user_by_domain: "null" is 0, else literal_eval under
\* `except (ValueError, SyntaxError)`.
LiteralClassify(response) ==
    IF response = <<"null">> THEN Returned(PyIntVal(0))
    ELSE LET r == literal_eval(response) IN
         CASE r.err = "none" -> Returned(r.val)
           [] r.err \in {"ValueError", "SyntaxError"} -> APIError(PyStr(response), 0)
           [] OTHER -> TypeError("unhashable type")

\* Slips of the kind a copied handler invites: create reading the status one
\* field early, suspend keeping change_password's fixed message, and
\* change_password keeping suspend's raw response.
Client_create_StatusOneEarly(response) == CreateClassify(response, 1, 3)
Client_suspend_FixedMessage(response) == StatusClassify(response, 0, InvalidUsername)
AsyncClient_change_password_RawMessage(response) ==
    StatusClassify(response, 0, PyStr(response))

Client_create(response) == CreateClassify(response, 2, 3)
Client_suspend(response) == StatusClassify(response, 0, PyStr(response))
Client_unsuspend(response) == StatusClassify(response, 0, PyStr(response))
Client_change_password(response) == StatusClassify(response, 5, InvalidUsername)
Client_domain_available(response) == ScalarClassify(response)
Client_user_domains(response) == LiteralClassify(response)
Client_user_by_domain(response) == LiteralClassify(response)

AsyncClient_create(response) == CreateClassify(response, 2, 3)
AsyncClient_suspend(response) == StatusClassify(response, 0, PyStr(response))
AsyncClient_unsuspend(response) == StatusClassify(response, 0, PyStr(response))
AsyncClient_change_password(response) == StatusClassify(response, 0, InvalidUsername)
AsyncClient_domain_available(response) == ScalarClassify(response)
AsyncClient_user_domains(response) == LiteralClassify(response)
AsyncClient_user_by_domain(response) == LiteralClassify(response)

Clients == {"Client", "AsyncClient"}
XmlOps == {"create", "suspend", "unsuspend", "change_password"}
Ops == XmlOps \cup {"domain_available", "user_domains", "user_by_domain"}

Classify(client, op, response) ==
    IF client = "Client"
    THEN CASE op = "create" -> Client_create(response)
           [] op = "suspend" -> Client_suspend(response)
           [] op = "unsuspend" -> Client_unsuspend(response)
           [] op = "change_password" -> Client_change_password(response)
           [] op = "domain_available" -> Client_domain_available(response)
           [] op = "user_domains" -> Client_user_domains(response)
           [] OTHER -> Client_user_by_domain(response)
    ELSE CASE op = "create" -> AsyncClient_create(response)
           [] op = "suspend" -> AsyncClient_suspend(response)
           [] op = "unsuspend" -> AsyncClient_unsuspend(response)
           [] op = "change_password" -> AsyncClient_change_password(response)
           [] op = "domain_available" -> AsyncClient_domain_available(response)
           [] op = "user_domains" -> AsyncClient_user_domains(response)
           [] OTHER -> AsyncClient_user_by_domain(response)

(***************************************************************************)
(* The raw response texts the transport returns (response = r.text): every *)
(* short text over the mixed lexemes, every short plain scalar text, XML   *)
(* documents of the shapes the remote API emits (written out from their    *)
(* trees), the same documents cut short or followed by junk, and list,     *)
(* set and mapping literals.                                               *)
(***************************************************************************)
RECURSIVE Flatten(_)
Flatten(seqs) == IF seqs = <<>> THEN <<>> ELSE Head(seqs) \o Flatten(Tail(seqs))

RECURSIVE Serialize(_)
Serialize(element) ==
    IF element.children = <<>> /\ ~element.text.some /\ element.tag = "a"
    THEN <<"<a/>">>
    ELSE <<IF element.tag = "a" THEN "<a>" ELSE "<b>">>
         \o element.text.s
         \o Flatten([i \in 1..Len(element.children) |-> Serialize(element.children[i])])
         \o <<IF element.tag = "a" THEN "</a>" ELSE "</b>">>

Leaf(text) == Element("a", text, <<>>)
\* The account record of a create response: options, then the identifier.
Account == Element("a", NoText,
                   <<Element("b", NoText, <<>>), Element("b", SomeText(<<"z", "1">>), <<>>)>>)
FirstFields ==
    {Leaf(NoText), Leaf(SomeText(<<"1">>)), Leaf(SomeText(<<"-", "1">>)),
     Leaf(SomeText(<<"z">>)), Leaf(SomeText(<<" ", "2", " ">>)), Account}
ThirdTexts == {NoText, SomeText(<<"1">>), SomeText(<<"0">>), SomeText(<<"2">>)}
SixthTexts == {NoText, SomeText(<<"1">>), SomeText(<<"z">>)}

\* <a><b> field0 ... field(n-1) </b></a>; the fourth field is the error text.
Document(n, first, third, sixth) ==
    Element("a", NoText,
        <<Element("b", NoText,
            [i \in 1..n |->
                CASE i = 1 -> first
                  [] i = 3 -> Leaf(third)
                  [] i = 4 -> Leaf(SomeText(<<"z", " ", "z">>))
                  [] i = 6 -> Leaf(sixth)
                  [] OTHER -> Leaf(NoText)])>>)

Documents ==
    {Document(n, first, third, sixth) :
        n \in 0..MaxFields, first \in FirstFields, third \in ThirdTexts, sixth \in SixthTexts}
    \cup {Leaf(NoText), Leaf(SomeText(<<"1">>)), Element("b", NoText, <<>>)}

XmlTexts == {Serialize(d) : d \in Documents}
BrokenXmlTexts ==
    {SubSeq(x, 1, Len(x) - 1) : x \in XmlTexts} \cup {x \o <<"z">> : x \in XmlTexts}

LiteralAtoms ==
    {<<"1">>, <<"-", "1">>, <<"'a.com'">>, <<"null">>, <<"[", "]">>, <<"[", "1", "]">>,
     <<"{", "}">>}
LiteralTexts ==
    {<<"[">> \o a \o <<"]">> : a \in LiteralAtoms}
    \cup {<<"[">> \o a \o <<",", " ">> \o b \o <<"]">> : a, b \in LiteralAtoms}
    \cup {<<"{">> \o a \o <<"}">> : a \in LiteralAtoms}
    \cup {<<"{">> \o k \o <<":", " ">> \o v \o <<"}">> : k, v \in LiteralAtoms}
    \cup {<<"{">> \o k \o <<":">> \o v \o <<",">> \o k \o <<":">> \o w \o <<"}">> :
            k \in {<<"1">>, <<"'a.com'">>}, v, w \in LiteralAtoms}
    \cup {a \o <<",">> \o b : a, b \in {<<"1">>, <<"'a.com'">>, <<"[", "]">>}}

Responses ==
    BoundedSeq(MixedLexemes, MaxTextLen) \cup BoundedSeq(ScalarLexemes, MaxScalarLen)
    \cup XmlTexts \cup BrokenXmlTexts \cup LiteralTexts

(***************************************************************************)
(* The state.  Per client: its credentials and endpoint (config), what     *)
(* its _session attribute refers to (None, the session given to the        *)
(* constructor, or one the client created), how many sessions it has       *)
(* constructed (created), whether the session it holds has been closed     *)
(* (closed) and whether the caller is outside, inside or has left a with   *)
(* block on it (scope).                                                    *)
(* For the caller: where it stands (idle, request posted, call ended),     *)
(* the call under way, how it ended, the requests the call has issued,     *)
(* and one earlier call it remembers.  For an event loop: its tasks.       *)
(***************************************************************************)
VARIABLES _session, pc, call, result, config, created, closed, scope, requests,
          remembered, tasks

vars ==
    <<_session, pc, call, result, config, created, closed, scope, requests,
      remembered, tasks>>

\* Most tasks calling operations on the AsyncClient at once.
MaxTasks == 3
Tasks == 1..MaxTasks

NoCall == [client |-> "", op |-> "", response |-> <<>>]
NoResult == [kind |-> "", exc |-> "none", value |-> PyNone, message |-> PyNone, status |-> 0]
NoRequest ==
    [client |-> "", op |-> "", url |-> <<"", "">>, auth |-> <<"", "">>,
     session |-> "None", serial |-> 0, closed |-> FALSE]
NoTask == [pc |-> "ready", op |-> "", request |-> NoRequest, result |-> NoResult]

\* The constructor's arguments: the credentials and the endpoint.
GivenConfig ==
    [client \in Clients |->
        [username |-> "example", password |-> "password",
         api_url |-> "https://panel.myownfreehost.net/xml-api/"]]

\* __init__: the credentials and the endpoint are kept as given, and so is
\* the session argument, None by default.
Init ==
    /\ _session \in [Clients -> {"None", "supplied"}]
    /\ pc = "idle"
    /\ call = NoCall
    /\ result = NoResult
    /\ config = GivenConfig
    /\ created = [client \in Clients |-> 0]
    /\ closed = [client \in Clients |-> FALSE]
    /\ scope = [client \in Clients |-> "outside"]
    /\ requests = <<>>
    /\ remembered = [call |-> NoCall, result |-> NoResult]
    /\ tasks = [task \in Tasks |-> NoTask]

\* A slip: the client insists on a session of its own making, so one given
\* to the constructor is replaced at the first call.
_ensure_session_OwnOnly(client) ==
    [_session EXCEPT ![client] = IF @ # "created" THEN "created" ELSE @]

\* _ensure_session: a session is created only when none is held.
_ensure_session(client) ==
    [_session EXCEPT ![client] = IF @ = "None" THEN "created" ELSE @]

\* The sessions _ensure_session constructs: one when it changes what the
\* client holds, none otherwise.
Constructed(client) == IF _ensure_session(client) = _session THEN 0 ELSE 1

\* The relative path each operation posts to.
Path(op) ==
    CASE op = "create" -> "createacct.php"
      [] op = "suspend" -> "suspendacct.php"
      [] op = "unsuspend" -> "unsuspendacct.php"
      [] op = "change_password" -> "passwd.php"
      [] op = "domain_available" -> "checkavailable.php"
      [] op = "user_domains" -> "getuserdomains.php"
      [] op = "user_by_domain" -> "getdomainuser.php"

\* session.post(url, params=..., auth=...): the request an operation issues,
\* on the session _ensure_session returned, with the client's credentials.
session_post(client, op) ==
    [client |-> client, op |-> op,
     url |-> <<config[client].api_url, Path(op)>>,
     auth |-> <<config[client].username, config[client].password>>,
     session |-> _ensure_session(client)[client],
     serial |-> created[client] + Constructed(client),
     closed |-> closed[client]]

\* An operation up to its request: _ensure_session(), then session.post(...).
Post(client, op) ==
    /\ pc = "idle"
    /\ _session' = _ensure_session(client)
    /\ created' = [created EXCEPT ![client] = @ + Constructed(client)]
    /\ requests' = Append(requests, session_post(client, op))
    /\ call' = [client |-> client, op |-> op, response |-> <<>>]
    /\ pc' = "posted"
    /\ UNCHANGED <<result, config>>

\* A slip: the request is sent again when the classification fails.
Respond_Retry(response) ==
    /\ pc = "posted"
    /\ call' = [call EXCEPT !.response = response]
    /\ result' = Classify(call.client, call.op, response)
    /\ pc' = "done"
    /\ requests' = IF Classify(call.client, call.op, response).kind = "raise"
                   THEN Append(requests, session_post(call.client, call.op))
                   ELSE requests
    /\ UNCHANGED <<_session, created, config>>

\* The rest of the operation: the transport hands over the response text and
\* the handler returns a value or raises.
Respond(response) ==
    /\ pc = "posted"
    /\ call' = [call EXCEPT !.response = response]
    /\ result' = Classify(call.client, call.op, response)
    /\ pc' = "done"
    /\ UNCHANGED <<_session, created, requests, config>>

\* The caller takes the value or the exception; the response is gone.
Return ==
    /\ pc = "done"
    /\ pc' = "idle"
    /\ call' = NoCall
    /\ result' = NoResult
    /\ requests' = <<>>
    /\ UNCHANGED <<_session, created, config>>

\* What the operations above leave alone.
beyond == <<closed, scope, remembered, tasks>>

Next ==
    \/ \E client \in Clients, op \in Ops : Post(client, op) /\ UNCHANGED beyond
    \/ \E response \in Responses : Respond(response) /\ UNCHANGED beyond
    \/ Return /\ UNCHANGED beyond

Spec == Init /\ [][Next]_vars

(***************************************************************************)
(* The life of a client around its calls: with blocks, close(), and        *)
(* exceptions raised inside a with block, over a few response texts.       *)
(***************************************************************************)
\* An integer, a text no decoder accepts, and <a><b><a>1</a></b></a>.
LifecycleResponses ==
    {<<"1">>, <<"z">>, Serialize(Document(1, Leaf(SomeText(<<"1">>)), NoText, NoText))}

\* A slip: close() spares a session the caller supplied.
session_close_OwnOnly(client) ==
    [closed EXCEPT ![client] = IF _session[client] = "created" THEN TRUE ELSE @]

\* The body of close(): self._session.close() when a session is held.
session_close(client) ==
    [closed EXCEPT ![client] = IF _session[client] # "None" THEN TRUE ELSE @]

\* A slip: close() also forgets where the API is.
close_ForgetsUrl(client) ==
    /\ pc = "idle"
    /\ closed' = session_close(client)
    /\ config' = [config EXCEPT ![client].api_url = ""]
    /\ call' = [client |-> client, op |-> "close", response |-> <<>>]
    /\ result' = Returned(PyNone)
    /\ pc' = "done"
    /\ UNCHANGED <<_session, created, scope, requests, remembered, tasks>>

\* close(), called by the caller between operations: it issues no request
\* and returns None.
close(client) ==
    /\ pc = "idle"
    /\ closed' = session_close(client)
    /\ call' = [client |-> client, op |-> "close", response |-> <<>>]
    /\ result' = Returned(PyNone)
    /\ pc' = "done"
    /\ UNCHANGED <<_session, config, created, scope, requests, remembered, tasks>>

\* __enter__ / __aenter__: return self.
__enter__(client) ==
    /\ pc = "idle"
    /\ scope[client] # "inside"
    /\ scope' = [scope EXCEPT ![client] = "inside"]
    /\ UNCHANGED <<_session, pc, call, result, config, created, closed, requests,
                   remembered, tasks>>

\* A slip: the session is closed on normal completion only.
__exit__NormalOnly(client) ==
    /\ scope[client] = "inside"
    /\ pc = "idle" \/ (pc = "done" /\ result.kind = "raise")
    /\ closed' = IF pc = "idle" THEN session_close(client) ELSE closed
    /\ scope' = [scope EXCEPT ![client] = "left"]
    /\ UNCHANGED <<_session, pc, call, result, config, created, requests, remembered, tasks>>

\* __exit__ / __aexit__: the block is left, normally (pc = "idle") or by an
\* exception on its way out (pc = "done" with a raise); close() is called and
\* nothing is returned, so the exception stays on its way.
__exit__(client) ==
    /\ scope[client] = "inside"
    /\ pc = "idle" \/ (pc = "done" /\ result.kind = "raise")
    /\ closed' = session_close(client)
    /\ scope' = [scope EXCEPT ![client] = "left"]
    /\ UNCHANGED <<_session, pc, call, result, config, created, requests, remembered, tasks>>

\* The code inside a with block raises an exception of its own.
BodyRaises ==
    /\ pc = "idle"
    /\ \E client \in Clients : scope[client] = "inside"
    /\ pc' = "done"
    /\ result' = Raised("Exception", PyNone)
    /\ UNCHANGED <<_session, call, config, created, closed, scope, requests, remembered,
                   tasks>>

\* The caller takes the outcome of a call and keeps it to compare later ones
\* with.
Remember ==
    /\ Return
    /\ call.op \in Ops
    /\ remembered' = [call |-> call, result |-> result]
    /\ UNCHANGED <<closed, scope, tasks>>

LifecycleNext ==
    \/ \E client \in Clients, op \in Ops : Post(client, op) /\ UNCHANGED beyond
    \/ \E response \in LifecycleResponses : Respond(response) /\ UNCHANGED beyond
    \/ Return /\ UNCHANGED beyond
    \/ Remember
    \/ BodyRaises
    \/ \E client \in Clients : __enter__(client)
    \/ \E client \in Clients : __exit__(client)
    \/ \E client \in Clients : close(client)

LifecycleSpec == Init /\ [][LifecycleNext]_vars

(***************************************************************************)
(* Tasks of one event loop calling operations on the AsyncClient.  A task  *)
(* runs from the start of the coroutine to session.post without giving up  *)
(* the loop: await self._ensure_session() runs a coroutine with no await   *)
(* in it.  It gives up the loop while the request and the response text    *)
(* are awaited, and then classifies the text.                              *)
(***************************************************************************)
TaskResponses == {<<"1">>, <<"z">>}

\* A slip: _ensure_session gives up the loop between finding no session
\* and creating one, so a task creates on what it saw before it was
\* suspended.
TaskPost_Suspending(task, op) ==
    \/ /\ tasks[task].pc = "ready"
       /\ tasks' = [tasks EXCEPT ![task] =
                       [pc |-> "checked", op |-> op,
                        request |-> [NoRequest EXCEPT !.session = _session["AsyncClient"]],
                        result |-> NoResult]]
       /\ UNCHANGED <<_session, pc, call, result, config, created, closed, scope,
                      requests, remembered>>
    \/ /\ tasks[task].pc = "checked"
       /\ tasks[task].op = op
       /\ LET seen == tasks[task].request.session
              made == IF seen = "None" THEN 1 ELSE 0
          IN /\ _session' = [_session EXCEPT !["AsyncClient"] =
                                IF seen = "None" THEN "created" ELSE @]
             /\ created' = [created EXCEPT !["AsyncClient"] = @ + made]
             /\ tasks' = [tasks EXCEPT ![task] =
                             [pc |-> "awaiting", op |-> op,
                              request |->
                                  [session_post("AsyncClient", op) EXCEPT
                                      !.session = IF seen = "None" THEN "created" ELSE seen,
                                      !.serial = created["AsyncClient"] + made],
                              result |-> NoResult]]
       /\ UNCHANGED <<pc, call, result, config, closed, scope, requests, remembered>>

\* session = await self._ensure_session(); async with session.post(...).
TaskPost(task, op) ==
    /\ tasks[task].pc = "ready"
    /\ _session' = _ensure_session("AsyncClient")
    /\ created' = [created EXCEPT !["AsyncClient"] = @ + Constructed("AsyncClient")]
    /\ tasks' = [tasks EXCEPT ![task] =
                    [pc |-> "awaiting", op |-> op,
                     request |-> session_post("AsyncClient", op), result |-> NoResult]]
    /\ UNCHANGED <<pc, call, result, config, closed, scope, requests, remembered>>

\* response = await r.text(), and the classification of the text.
TaskRespond(task, response) ==
    /\ tasks[task].pc = "awaiting"
    /\ tasks' = [tasks EXCEPT ![task].pc = "finished",
                              ![task].result =
                                  Classify("AsyncClient", tasks[task].op, response)]
    /\ UNCHANGED <<_session, pc, call, result, config, created, closed, scope, requests,
                   remembered>>

\* The task's value or exception is collected.
TaskReturn(task) ==
    /\ tasks[task].pc = "finished"
    /\ tasks' = [tasks EXCEPT ![task] = NoTask]
    /\ UNCHANGED <<_session, pc, call, result, config, created, closed, scope, requests,
                   remembered>>

TaskNext ==
    \/ \E task \in Tasks, op \in Ops : TaskPost(task, op)
    \/ \E task \in Tasks, response \in TaskResponses : TaskRespond(task, response)
    \/ \E task \in Tasks : TaskReturn(task)

TaskSpec == Init /\ [][TaskNext]_vars

(***************************************************************************)
(* The claims.  Those on classification are about a call that has ended   *)
(* (pc = "done"): call holds the client, the operation and the response    *)
(* text, result how the call ended; they are checked under Spec.  Those on *)
(* sessions, with blocks and close() are checked under LifecycleSpec, the  *)
(* one on concurrent tasks under TaskSpec.                                 *)
(***************************************************************************)
Done == pc = "done"
Doc == _parse_xml(call.response)
StatusOps == {"suspend", "unsuspend", "change_password"}
LookupOps == {"user_domains", "user_by_domain"}
IsAPIError(message, status) ==
    /\ result.kind = "raise"
    /\ result.exc = "APIError"
    /\ result.message = message
    /\ result.status = status

\* The status field of a single-status response, where the handler of the
\* call reads it.
StatusAt == IF call.client = "Client" /\ call.op = "change_password" THEN 5 ELSE 0
HasStatusField ==
    Doc.ok /\ HasChild(Doc.root, 0) /\ HasChild(Child(Doc.root, 0), StatusAt)
StatusText == TextOf(Child(Child(Doc.root, 0), StatusAt))

\* C1: every call, whatever the operation and the response text, ends by
\* returning a value or by raising APIError; no other exception escapes.
C1_ReturnsOrRaisesAPIError ==
    Done => (result.kind = "return" \/ (result.kind = "raise" /\ result.exc = "APIError"))

\* The nested-record shape: a status at root[0][2]; with it the identifier at
\* root[0][0][1] when the status is "1", the error message at root[0][3]
\* otherwise.
NestedRecordShape(root) ==
    /\ HasChild(root, 0)
    /\ HasChild(Child(root, 0), 2)
    /\ IF TextOf(Child(Child(root, 0), 2)) = PyStr(<<"1">>)
       THEN HasChild(Child(Child(root, 0), 0), 1)
       ELSE HasChild(Child(root, 0), 3)

\* C2: create on a well-formed response of the nested-record shape returns
\* the identifier's text when the status text is "1", and otherwise raises
\* APIError with the error field's text and a status that is not 1.
C2_CreateClassifiesNestedRecord ==
    (Done /\ call.op = "create" /\ Doc.ok /\ NestedRecordShape(Doc.root)) =>
        LET record == Child(Doc.root, 0) IN
        IF TextOf(Child(record, 2)) = PyStr(<<"1">>)
        THEN result = Returned(TextOf(Child(Child(record, 0), 1)))
        ELSE /\ result.kind = "raise"
             /\ result.exc = "APIError"
             /\ result.message = TextOf(Child(record, 3))
             /\ result.status # 1

\* create has returned the identifier z1 of a response whose status is "1".
C2_Witness ==
    /\ Done
    /\ call.op = "create"
    /\ call.response = Serialize(Document(4, Account, SomeText(<<"1">>), NoText))
    /\ result = Returned(PyStr(<<"z", "1">>))

\* C3: create on a response that is not well-formed XML raises APIError with
\* status 0 and the parser's complaint as message.
C3_CreateMalformedRaisesAPIError ==
    (Done /\ call.op = "create" /\ ~Doc.ok) => IsAPIError(ParserComplaint, 0)

\* C4: suspend, unsuspend and change_password on a well-formed response
\* return the integer the status field's text denotes, and raise APIError
\* with status 0 when the text denotes none.
C4_StatusIntegerOrAPIError ==
    (Done /\ call.op \in StatusOps /\ HasStatusField) =>
        IF StatusText.ty = "str" /\ PyInt(StatusText.s).ok
        THEN result = Returned(PyIntVal(PyInt(StatusText.s).n))
        ELSE result.kind = "raise" /\ result.exc = "APIError" /\ result.status = 0

\* C5: suspend and unsuspend on a response that is not well-formed XML raise
\* APIError with status 0 and the raw response text as message.
C5_SuspendMalformedIsRawResponse ==
    (Done /\ call.op \in {"suspend", "unsuspend"} /\ ~Doc.ok) =>
        IsAPIError(PyStr(call.response), 0)

\* suspend has raised APIError on a document cut short.
C5_Witness ==
    /\ Done
    /\ call.op = "suspend"
    /\ call.response = <<"<a>", "<b>", "<a>", "1", "</a>", "</b>">>
    /\ IsAPIError(PyStr(call.response), 0)

\* C6: change_password on a response that is not well-formed XML raises
\* APIError with status 0 and the message "Invalid username provided.",
\* whatever the response text.
C6_ChangePasswordMalformedIsFixedMessage ==
    (Done /\ call.op = "change_password" /\ ~Doc.ok) => IsAPIError(InvalidUsername, 0)

\* change_password has raised the fixed message on plain text.
C6_Witness ==
    /\ Done
    /\ call.op = "change_password"
    /\ call.response = <<"z", " ", "z">>
    /\ IsAPIError(InvalidUsername, 0)

\* C7: on a well-formed response whose status text denotes no integer,
\* change_password raises APIError("Invalid username provided.", 0) while
\* suspend and unsuspend raise APIError(raw response, 0).
C7_NonIntegerStatusMessage ==
    (Done /\ call.op \in StatusOps /\ HasStatusField
          /\ StatusText.ty = "str" /\ ~PyInt(StatusText.s).ok) =>
        IF call.op = "change_password"
        THEN IsAPIError(InvalidUsername, 0)
        ELSE IsAPIError(PyStr(call.response), 0)

\* C8: domain_available returns the integer the response text converts to,
\* and raises APIError with status 0 and the raw text as message when the
\* text converts to none.
C8_DomainAvailableIntegerOrRawText ==
    (Done /\ call.op = "domain_available") =>
        IF PyInt(call.response).ok
        THEN result = Returned(PyIntVal(PyInt(call.response).n))
        ELSE IsAPIError(PyStr(call.response), 0)

\* domain_available has returned 0 for the text "0".
C8_Witness ==
    /\ Done
    /\ call.op = "domain_available"
    /\ call.response = <<"0">>
    /\ result = Returned(PyIntVal(0))

\* C9: user_domains and user_by_domain return 0 for the text "null", return
\* the parsed value of a list or mapping literal, and raise APIError with
\* status 0 and the raw text as message when the text cannot be parsed as a
\* literal.
C9_LookupNullLiteralOrRawText ==
    (Done /\ call.op \in LookupOps) =>
        LET parsed == literal_eval(call.response) IN
        CASE call.response = <<"null">> -> result = Returned(PyIntVal(0))
          [] call.response # <<"null">> /\ parsed.err # "none" ->
                IsAPIError(PyStr(call.response), 0)
          [] call.response # <<"null">> /\ parsed.err = "none"
                /\ parsed.val.ty \in {"list", "dict"} -> result = Returned(parsed.val)
          [] OTHER -> TRUE

\* C10: on the same operation and response text the other facade ends the
\* call the same way: the same value, or APIError with the same message and
\* status.
C10_FacadesAgree ==
    Done => result = Classify(IF call.client = "Client" THEN "AsyncClient" ELSE "Client",
                              call.op, call.response)

\* C11: an APIError raised on a response whose status field is readable as
\* an integer carries that integer as its status; the status is 0 for such
\* a response only when the API reported 0.
C11_FailureCarriesApiStatus ==
    (Done /\ call.op = "create" /\ Doc.ok /\ NestedRecordShape(Doc.root)
          /\ result.kind = "raise" /\ result.exc = "APIError") =>
        LET status == TextOf(Child(Child(Doc.root, 0), 2)) IN
        (status.ty = "str" /\ PyInt(status.s).ok) => result.status = PyInt(status.s).n

\* C13: a client constructs at most one session, and none when one was
\* supplied; every request of a call goes out on the session the client
\* holds; a session once held is never replaced, and what the client holds
\* changes only in the step of one of its calls that found none.
C13_SessionReuse ==
    /\ [](\A client \in Clients :
            /\ created[client] <= 1
            /\ _session[client] = "supplied" => created[client] = 0
            /\ _session[client] = "created" => created[client] = 1
            /\ \A i \in 1..Len(requests) :
                  requests[i].client = client =>
                      /\ requests[i].session = _session[client]
                      /\ requests[i].session # "None"
                      /\ requests[i].serial = created[client])
    /\ [][\A client \in Clients :
            /\ _session[client] # "None" => _session'[client] = _session[client]
            /\ _session'[client] # _session[client] =>
                  (pc = "idle" /\ pc' = "posted" /\ call'.client = client)]_vars

\* A later call of the Client has posted on the one session the client
\* created for an earlier call.
C13_Witness ==
    /\ pc = "posted"
    /\ call.client = "Client"
    /\ remembered.call.client = "Client"
    /\ created["Client"] = 1
    /\ requests[1].session = "created"
    /\ requests[1].serial = 1

\* C14: a step that leaves a with block on a client closes the session the
\* client holds, whether the block completed or an exception is on its way
\* out, and leaves that exception on its way to the caller.
C14_ScopeExitCloses ==
    [][\A client \in Clients :
          (scope[client] = "inside" /\ scope'[client] # "inside") =>
              /\ _session[client] # "None" => closed'[client]
              /\ pc' = pc
              /\ result' = result
              /\ call' = call]_vars

\* An APIError raised by an operation of the Client has left the with
\* block: the session the request went out on, open then, is closed and the
\* exception is still on its way.
C14_Witness ==
    /\ Done
    /\ call.client = "Client"
    /\ result.exc = "APIError"
    /\ scope["Client"] = "left"
    /\ closed["Client"]
    /\ ~requests[1].closed

\* C15: the username, password and api_url of each client are, in every
\* state, those given to the constructor, and every request carries them.
C15_ConfigImmutable ==
    /\ config = GivenConfig
    /\ \A i \in 1..Len(requests) :
          /\ requests[i].auth = <<GivenConfig[requests[i].client].username,
                                  GivenConfig[requests[i].client].password>>
          /\ requests[i].url[1] = GivenConfig[requests[i].client].api_url

\* After a close and a with block left behind, an operation has raised and
\* the credentials are as given.
C15_Witness ==
    /\ Done
    /\ call.client = "AsyncClient"
    /\ result.kind = "raise"
    /\ closed["AsyncClient"]
    /\ scope["AsyncClient"] = "left"
    /\ config = GivenConfig

\* C16: a call on a response text ends as the call remembered from before
\* ended, when that was the same operation on the same text, whichever
\* client made either call and whatever state it was in.
C16_SameTextSameOutcome ==
    (Done /\ call.op \in Ops /\ remembered.call.op = call.op
          /\ remembered.call.response = call.response) =>
        result = remembered.result

\* C17: a client that holds no session has closed none and created none;
\* a call of close() leaves the session the client holds closed, supplied
\* or created, holds the same session afterwards, creates none, issues no
\* request, returns None, and closes nothing when the client holds none.
C17_CloseClosesHeldSession ==
    /\ [](\A client \in Clients :
            _session[client] = "None" => (~closed[client] /\ created[client] = 0))
    /\ [][(pc = "idle" /\ pc' = "done" /\ call'.op = "close") =>
            /\ _session[call'.client] # "None" => closed'[call'.client]
            /\ _session[call'.client] = "None" => closed' = closed
            /\ _session' = _session
            /\ created' = created
            /\ requests' = <<>>
            /\ result' = Returned(PyNone)]_vars

\* close() has returned on the AsyncClient: the session it was given is
\* closed.
C17_Witness ==
    /\ Done
    /\ call = [client |-> "AsyncClient", op |-> "close", response |-> <<>>]
    /\ _session["AsyncClient"] = "supplied"
    /\ closed["AsyncClient"]

\* C18: with tasks calling operations on the AsyncClient at once, one
\* session at most is created and the request of every task is on the
\* session the client holds.
C18_TasksShareOneSession ==
    /\ created["AsyncClient"] <= 1
    /\ \A task \in Tasks :
          tasks[task].pc \in {"awaiting", "finished"} =>
              /\ tasks[task].request.session = _session["AsyncClient"]
              /\ tasks[task].request.session # "None"
              /\ tasks[task].request.serial = created["AsyncClient"]
    /\ \A t1, t2 \in Tasks :
          (tasks[t1].pc = "awaiting" /\ tasks[t2].pc = "awaiting") =>
              /\ tasks[t1].request.session = tasks[t2].request.session
              /\ tasks[t1].request.serial = tasks[t2].request.serial

\* Two tasks await their responses at once, both on the one session the
\* AsyncClient created.
C18_Witness ==
    /\ tasks[1].pc = "awaiting"
    /\ tasks[2].pc = "awaiting"
    /\ tasks[1].request.session = "created"
    /\ tasks[2].request.session = "created"
    /\ created["AsyncClient"] = 1

\* C19: no request goes out on a session that has been closed.
C19_NoPostOnClosedSession ==
    \A i \in 1..Len(requests) : ~requests[i].closed

\* C20: user_domains and user_by_domain return a list or a mapping for
\* every response text other than "null" that they classify successfully,
\* so that 0 is returned for "null" alone.
C20_LookupZeroOnlyForNull ==
    (Done /\ call.op \in LookupOps /\ result.kind = "return"
          /\ call.response # <<"null">>) =>
        (result.value.ty \in {"list", "dict"} /\ result.value # PyIntVal(0))

\* C12: a call issues exactly one POST, for its own operation, before the
\* response is classified, and none after: when the call has ended, by a
\* value or by an exception, that one request is still the only one.
C12_OnePostPerCall ==
    /\ pc = "idle" => requests = <<>>
    /\ pc \in {"posted", "done"} =>
        /\ Len(requests) = 1
        /\ requests[1].client = call.client
        /\ requests[1].op = call.op
        /\ requests[1].url[2] = Path(call.op)

\* suspend has raised APIError on a response it could not classify, with one
\* request issued.
C12_Witness ==
    /\ Done
    /\ call.op = "suspend"
    /\ result.kind = "raise"
    /\ result.exc = "APIError"
    /\ Len(requests) = 1
=============================================================================
